---- MODULE Spec2Model ----
(***************************************************************************)
(* CareerBridge AI (src/app.py): the Notion listing repository             *)
(* (fetch_jobs_from_notion, post_job_to_notion), the Gemini guidance       *)
(* generator (get_career_guidance) and the two Streamlit views that call   *)
(* them.  Spec is the Streamlit script (one user event = one script run);  *)
(* SpecRepo calls the three functions directly with arbitrary arguments.   *)
(***************************************************************************)
EXTENDS Integers, Sequences, FiniteSets, TLC

\* ------------------------------------------------------------------ bounds
MaxPages == 2        \* pages in one query response
MaxOps == 3          \* repository/generator calls in one behaviour

\* ------------------------------------------------------------- data domain
\* text typed into widgets / passed as arguments
Strs == {"", "a"}

\* HTTP statuses the remote API answers with
Statuses == {200, 400, 401}

\* response.text of a create-page response
BodyTexts == {"", "API token is invalid."}

\* records the remote database may hold at start
InitialCounts == {0, 1}

NOTION_DATABASE_ID == "db"

PropNames == {"Title", "Role", "Company", "Required Skills", "Description"}

\* the property key the code reads the fragment list from (lines 98-114)
TypeKey(name) == IF name = "Title" THEN "title" ELSE "rich_text"

\* A fragment of a property: a map that may or may not hold "plain_text".
Frag(s) == [has_plain_text |-> TRUE, plain_text |-> s]
FragNoPlain == [has_plain_text |-> FALSE, plain_text |-> ""]

\* The value of one property of a page, as the JSON response holds it:
\*   absent  the key is not in "properties"
\*   notmap  the value is not a JSON object (null, string, list, number)
\*   map     a JSON object; key is the type key it holds, frags its list
Absent == [kind |-> "absent", key |-> "", frags |-> <<>>]
NotMap == [kind |-> "notmap", key |-> "", frags |-> <<>>]
Prop(key, frags) == [kind |-> "map", key |-> key, frags |-> frags]

\* the text a fully populated page holds in each property
FullText(name) ==
    CASE name = "Title" -> "Intern"
      [] name = "Role" -> "Backend"
      [] name = "Company" -> "Acme"
      [] name = "Required Skills" -> "Python"
      [] name = "Description" -> "Build"

FullPage == [n \in PropNames |-> Prop(TypeKey(n), <<Frag(FullText(n))>>)]
EmptyPage == [n \in PropNames |-> Absent]
With(page, name, shape) == [page EXCEPT ![name] = shape]

\* pages a query response is built from
PageSet ==
    {FullPage, EmptyPage}
    \cup {With(FullPage, n, Absent) : n \in {"Title", "Company"}}
    \cup {With(With(EmptyPage, "Title", Prop("title", <<Frag("Intern")>>)),
               "Role", Prop("rich_text", <<Frag("Backend")>>)),
          With(FullPage, "Required Skills", Prop("rich_text", <<>>)),
          With(FullPage, "Role", Prop("rich_text", <<Frag("Data"), Frag("Backend")>>)),
          With(FullPage, "Description", Prop("title", <<Frag("Build")>>)),
          With(FullPage, "Title", NotMap),
          With(FullPage, "Company", Prop("rich_text", <<FragNoPlain>>))}

SeqsUpTo(S, n) == UNION {[1..k -> S] : k \in 0..n}

\* The decoded body of a query response:
\*   notjson    response.json() fails
\*   array      valid JSON that is not an object
\*   noresults  an object without "results" (the API's error object)
\*   results    an object whose "results" is the list of pages
Body(kind, pages) == [kind |-> kind, results |-> pages]
Bodies ==
    {Body(k, <<>>) : k \in {"notjson", "array", "noresults"}}
    \cup {Body("results", ps) : ps \in SeqsUpTo(PageSet, MaxPages)}

\* What requests.post does: it throws, or returns a response.
Response(exc, status, text, body) ==
    [exc |-> exc, status |-> status, text |-> text, body |-> body]
NoResponse == Response(FALSE, 0, "", Body("noresults", <<>>))
TransportError == Response(TRUE, 0, "", Body("noresults", <<>>))
QueryResponses ==
    {TransportError}
    \cup {Response(FALSE, s, "", b) : s \in Statuses, b \in Bodies}
PageResponses ==
    {TransportError}
    \cup {Response(FALSE, s, t, Body("noresults", <<>>)) : s \in Statuses, t \in BodyTexts}

\* ---------------------------------------------------------------- messages
AuthErrorMsg == "Authentication Error: Notion rejected the key. Check for hidden spaces in .env"
ConnectionFailedMsg(e) == "Connection failed: " \o e
FailedToPostMsg(text) == "Failed to post: " \o text
FallbackReport == "Sorry, I couldn't generate an analysis at this moment."

\* ------------------------------------------- fetch_jobs_from_notion (79-126)
\* Python exceptions are named by their class; "" means none was raised.
NoExc == ""

\* except Exception (lines 124, 152, 182) catches every exception class.
Catches(handler, e) == handler = "Exception" \/ handler = e

Value(v) == [exc |-> NoExc, v |-> v]
Raise(e) == [exc |-> e, v |-> ""]

\* PropText reading the last fragment instead of the first
PropText_last(page, name, default) ==
    LET p == page[name] IN
    IF p.kind = "notmap" THEN Raise("AttributeError")
    ELSE LET lst == IF p.kind = "map" /\ p.key = TypeKey(name)
                    THEN p.frags ELSE <<>>
         IN IF lst = <<>> THEN Value(default)
            ELSE IF lst[Len(lst)].has_plain_text
                 THEN Value(lst[Len(lst)].plain_text)
                 ELSE Raise("KeyError")

\* PropText substituting the default for a shape it cannot read
PropText_failopen(page, name, default) ==
    LET p == page[name] IN
    IF p.kind = "notmap" THEN Value(default)
    ELSE LET lst == IF p.kind = "map" /\ p.key = TypeKey(name)
                    THEN p.frags ELSE <<>>
         IN IF lst = <<>> THEN Value(default)
            ELSE IF lst[1].has_plain_text THEN Value(lst[1].plain_text)
            ELSE Value(default)

\* props.get(name, {}).get(key, []) followed by
\* lst[0]["plain_text"] if lst else default        (lines 98-115)
PropText(page, name, default) ==
    LET p == page[name] IN
    IF p.kind = "notmap" THEN Raise("AttributeError")
    ELSE LET lst == IF p.kind = "map" /\ p.key = TypeKey(name)
                    THEN p.frags ELSE <<>>
         IN IF lst = <<>> THEN Value(default)
            ELSE IF lst[1].has_plain_text THEN Value(lst[1].plain_text)
            ELSE Raise("KeyError")

Job(role, company, skills, description) ==
    [role |-> role, company |-> company, skills |-> skills,
     description |-> description]
NoJob == Job("", "", "", "")

\* the body of the for loop, lines 93-122, for one page
ExtractJob(page) ==
    LET job_title == PropText(page, "Title", "Untitled")
        role_detail == PropText(page, "Role", "")
        company == PropText(page, "Company", "Unknown")
        skills == PropText(page, "Required Skills", "")
        desc == PropText(page, "Description", "")
    IN CASE job_title.exc # NoExc -> [exc |-> job_title.exc, job |-> NoJob]
         [] role_detail.exc # NoExc -> [exc |-> role_detail.exc, job |-> NoJob]
         [] company.exc # NoExc -> [exc |-> company.exc, job |-> NoJob]
         [] skills.exc # NoExc -> [exc |-> skills.exc, job |-> NoJob]
         [] desc.exc # NoExc -> [exc |-> desc.exc, job |-> NoJob]
         [] OTHER -> [exc |-> NoExc,
                      job |-> Job(job_title.v \o " - " \o role_detail.v,
                                  company.v, skills.v, desc.v)]

\* the for loop, lines 91-123: jobs accumulates, the first exception ends it
RECURSIVE JobsLoop(_, _)
JobsLoop(pages, jobs) ==
    IF pages = <<>> THEN [exc |-> NoExc, jobs |-> jobs]
    ELSE LET e == ExtractJob(Head(pages)) IN
         IF e.exc # NoExc THEN [exc |-> e.exc, jobs |-> <<>>]
         ELSE JobsLoop(Tail(pages), Append(jobs, e.job))

FetchOutcome(exc, ret, msgs) == [exc |-> exc, ret |-> ret, msgs |-> msgs]

\* the try block, lines 83-123
FetchTry(resp) ==
    IF resp.exc THEN FetchOutcome("ConnectionError", <<>>, <<>>)
    ELSE IF resp.status = 401 THEN FetchOutcome(NoExc, <<>>, <<AuthErrorMsg>>)
    ELSE CASE resp.body.kind = "notjson" ->
                  FetchOutcome("JSONDecodeError", <<>>, <<>>)
           [] resp.body.kind = "array" ->
                  FetchOutcome("AttributeError", <<>>, <<>>)
           [] resp.body.kind = "noresults" -> FetchOutcome(NoExc, <<>>, <<>>)
           [] resp.body.kind = "results" ->
                  LET l == JobsLoop(resp.body.results, <<>>)
                  IN FetchOutcome(l.exc, l.jobs, <<>>)

\* a handler that catches transport errors only
FetchHandler_narrow == "ConnectionError"

\* the exception class the handler of line 124 catches
FetchHandler == "Exception"

FetchCall(called, resp, ret, raised, msgs, reqs) ==
    [called |-> called, resp |-> resp, ret |-> ret, raised |-> raised,
     msgs |-> msgs, reqs |-> reqs]
NoFetch == FetchCall(FALSE, NoResponse, <<>>, FALSE, <<>>, 0)

fetch_jobs_from_notion(resp) ==
    LET t == FetchTry(resp) IN
    IF t.exc = NoExc THEN FetchCall(TRUE, resp, t.ret, FALSE, t.msgs, 1)
    ELSE IF Catches(FetchHandler, t.exc)
         THEN FetchCall(TRUE, resp, <<>>, FALSE,
                        <<ConnectionFailedMsg(t.exc)>>, 1)
         ELSE FetchCall(TRUE, resp, <<>>, TRUE, <<>>, 1)

\* ---------------------------------------------- post_job_to_notion (128-154)
PayloadNames == PropNames \cup {"Contact"}
Field(type, content) == [type |-> type, content |-> content]
NoPayload == [parent |-> "", properties |-> [n \in PayloadNames |-> Field("", "")]]

\* lines 131-142
Payload(title, role_detail, company, skills, description, contact) ==
    [parent |-> NOTION_DATABASE_ID,
     properties |->
        [n \in PayloadNames |->
            CASE n = "Title" -> Field("title", title)
              [] n = "Role" -> Field("rich_text", role_detail)
              [] n = "Company" -> Field("rich_text", company)
              [] n = "Required Skills" -> Field("rich_text", skills)
              [] n = "Description" -> Field("rich_text", description)
              [] n = "Contact" -> Field("rich_text", contact)]]

PostCall(called, args, resp, req, ret, raised, msgs, reqs) ==
    [called |-> called, args |-> args, resp |-> resp, req |-> req,
     ret |-> ret, raised |-> raised, msgs |-> msgs, reqs |-> reqs]
NoPost == PostCall(FALSE, <<>>, NoResponse, NoPayload, FALSE, FALSE, <<>>, 0)

\* any status below 401 taken for success
PostSucceeded_lenient(status) == status < 401

\* line 147
PostSucceeded(status) == status = 200

\* post_job_to_notion sending the request a second time when it failed
post_job_to_notion_retry(args, resp) ==
    IF Len(args) # 6
    THEN PostCall(TRUE, args, NoResponse, NoPayload, FALSE, TRUE, <<>>, 0)
    ELSE LET payload == Payload(args[1], args[2], args[3], args[4], args[5], args[6])
         IN IF resp.exc
            THEN PostCall(TRUE, args, resp, payload, FALSE, FALSE,
                          <<ConnectionFailedMsg("ConnectionError")>>, 2)
            ELSE IF PostSucceeded(resp.status)
                 THEN PostCall(TRUE, args, resp, payload, TRUE, FALSE, <<>>, 1)
                 ELSE PostCall(TRUE, args, resp, payload, FALSE, FALSE,
                               <<FailedToPostMsg(resp.text)>>, 2)

\* args are the positional arguments of the call.  The signature (line 128)
\* has six parameters without defaults: any other number of arguments makes
\* the call itself raise TypeError, before the body runs.
post_job_to_notion(args, resp) ==
    IF Len(args) # 6
    THEN PostCall(TRUE, args, NoResponse, NoPayload, FALSE, TRUE, <<>>, 0)
    ELSE LET payload == Payload(args[1], args[2], args[3], args[4], args[5], args[6])
         IN IF resp.exc
            THEN PostCall(TRUE, args, resp, payload, FALSE, FALSE,
                          <<ConnectionFailedMsg("ConnectionError")>>, 1)
            ELSE IF PostSucceeded(resp.status)
                 THEN PostCall(TRUE, args, resp, payload, TRUE, FALSE, <<>>, 1)
                 ELSE PostCall(TRUE, args, resp, payload, FALSE, FALSE,
                               <<FailedToPostMsg(resp.text)>>, 1)

\* ---------------------------------------------- get_career_guidance (157-183)
\* What model.generate_content(prompt) followed by response.text does.
GenOutcome(throws, text) == [throws |-> throws, text |-> text]
GenOutcomes ==
    {GenOutcome(TRUE, "")}
    \cup {GenOutcome(FALSE, t) : t \in {"", "**Match Analysis**"}}

Profile(name, skills, interests) ==
    [name |-> name, skills |-> skills, interests |-> interests]
NoProfile == Profile("", "", "")

GenCall(called, profile, listings, out, ret, raised, reqs) ==
    [called |-> called, profile |-> profile, listings |-> listings,
     out |-> out, ret |-> ret, raised |-> raised, reqs |-> reqs]
NoGen == GenCall(FALSE, NoProfile, <<>>, GenOutcome(FALSE, ""), "", FALSE, 0)

\* get_career_guidance with the use of `model` outside the try block
get_career_guidance_unbound(profile, listings, defined, out) ==
    IF ~defined
    THEN GenCall(TRUE, profile, listings, out, "", TRUE, 0)
    ELSE IF out.throws
         THEN GenCall(TRUE, profile, listings, out, FallbackReport, FALSE, 1)
         ELSE GenCall(TRUE, profile, listings, out, out.text, FALSE, 1)

\* lines 179-183.  defined: the global `model` was bound at start-up
\* (line 64); when it was not, line 180 raises NameError inside the try.
get_career_guidance(profile, listings, defined, out) ==
    IF ~defined
    THEN GenCall(TRUE, profile, listings, out, FallbackReport, FALSE, 0)
    ELSE IF out.throws
         THEN GenCall(TRUE, profile, listings, out, FallbackReport, FALSE, 1)
         ELSE GenCall(TRUE, profile, listings, out, out.text, FALSE, 1)

\* ------------------------------------------------------------------- state
VARIABLES
    pc,            \* position of the Streamlit script run ("idle": none running)
    ui,            \* widget values of the running script
    model_defined, \* the global `model` exists (lines 61-66)
    market_data,   \* local of the student view (line 256)
    fetched,       \* the latest call of fetch_jobs_from_notion
    posted,        \* the latest call of post_job_to_notion
    guided,        \* the latest call of get_career_guidance
    calls,         \* functions called since the script run (or harness) began
    crashed,       \* an exception escaped the script run
    store0,        \* records in the remote database at start
    storeCount,    \* records in the remote database
    readReqs,      \* query requests sent to the remote database
    writeReqs,     \* create-page requests sent to the remote database
    createsTrue,   \* calls of post_job_to_notion that returned True
    fetchCalls,    \* calls of fetch_jobs_from_notion so far
    createCalls,   \* calls of post_job_to_notion so far
    ops            \* calls of the three functions so far

vars == <<pc, ui, model_defined, market_data, fetched, posted, guided, calls,
          crashed, store0, storeCount, readReqs, writeReqs, createsTrue,
          fetchCalls, createCalls, ops>>

Widgets(mode, company, role, contact, skills, desc, post, n, k, i, analyze) ==
    [user_mode |-> mode, company_name |-> company, role_title |-> role,
     contact_info |-> contact, req_skills |-> skills, job_desc |-> desc,
     post_btn |-> post, s_name |-> n, s_skills |-> k, s_interests |-> i,
     analyze_btn |-> analyze]
NoWidgets == Widgets("", "", "", "", "", "", FALSE, "", "", "", FALSE)

\* lines 61-70: the model client is configured once; genai.configure or
\* GenerativeModel may raise, and then `model` stays unbound.
Init ==
    /\ pc = "idle"
    /\ ui = NoWidgets
    /\ model_defined \in BOOLEAN
    /\ market_data = <<>>
    /\ fetched = NoFetch
    /\ posted = NoPost
    /\ guided = NoGen
    /\ calls = <<>>
    /\ crashed = FALSE
    /\ store0 \in InitialCounts
    /\ storeCount = store0
    /\ readReqs = 0
    /\ writeReqs = 0
    /\ createsTrue = 0
    /\ fetchCalls = 0
    /\ createCalls = 0
    /\ ops = 0

\* ------------------------------------------------- the remote database
\* POST /v1/pages adds one record exactly when it answers 200; a request
\* that fails in transport did not land.  POST .../query changes nothing.
RecordsAdded(r) ==
    IF r.reqs > 0 /\ ~r.resp.exc /\ r.resp.status = 200 THEN r.reqs ELSE 0

AfterFetch(r) ==
    /\ fetched' = r
    /\ readReqs' = readReqs + r.reqs
    /\ calls' = Append(calls, "fetchAll")
    /\ fetchCalls' = fetchCalls + 1
    /\ ops' = ops + 1
    /\ UNCHANGED <<store0, storeCount, writeReqs, createsTrue, createCalls>>

AfterPost(r) ==
    /\ posted' = r
    /\ writeReqs' = writeReqs + r.reqs
    /\ storeCount' = storeCount + RecordsAdded(r)
    /\ createsTrue' = createsTrue + (IF ~r.raised /\ r.ret THEN 1 ELSE 0)
    /\ calls' = Append(calls, "create")
    /\ createCalls' = createCalls + 1
    /\ ops' = ops + 1
    /\ UNCHANGED <<store0, readReqs, fetchCalls>>

AfterGen(r) ==
    /\ guided' = r
    /\ calls' = Append(calls, "generate")
    /\ ops' = ops + 1
    /\ UNCHANGED <<store0, storeCount, readReqs, writeReqs, createsTrue,
                   fetchCalls, createCalls>>

NoCall == UNCHANGED <<calls, ops, store0, storeCount, readReqs, writeReqs,
                      createsTrue, fetchCalls, createCalls>>

\* ------------------------------------------------ the Streamlit script
\* A widget event reruns the script from the top with the widgets' values;
\* a run makes at most two calls.
UserEvent ==
    /\ pc = "idle"
    /\ ops + 2 <= MaxOps
    /\ \/ \E c, r, k, q, d \in Strs, b \in BOOLEAN :
            /\ ui' = Widgets("recruiter", c, r, k, q, d, b, "", "", "", FALSE)
            /\ pc' = "recruiter"
       \/ \E n, k, i \in Strs, b \in BOOLEAN :
            /\ ui' = Widgets("student", "", "", "", "", "", FALSE, n, k, i, b)
            /\ pc' = "student"
    /\ UNCHANGED <<model_defined, market_data, fetched, posted, guided, calls,
                   crashed, store0, storeCount, readReqs, writeReqs,
                   createsTrue, fetchCalls, createCalls, ops>>

\* the positional arguments of the call on line 215
PostArgs(w) ==
    <<w.role_title, w.company_name, w.req_skills, w.job_desc, w.contact_info>>

\* lines 212-221: the Post Job button
PostJob ==
    /\ pc = "recruiter"
    /\ IF ui.post_btn
       THEN IF ui.company_name # "" /\ ui.role_title # "" /\ ui.req_skills # ""
            THEN \E resp \in PageResponses :
                   LET r == post_job_to_notion(PostArgs(ui), resp) IN
                   /\ AfterPost(r)
                   /\ IF r.raised
                      THEN crashed' = TRUE /\ pc' = "done" /\ ui' = ui
                      ELSE IF r.ret
                           \* st.success, time.sleep(2), st.rerun()
                           THEN /\ pc' = "recruiter"
                                /\ ui' = [ui EXCEPT !.post_btn = FALSE]
                                /\ crashed' = crashed
                           ELSE /\ pc' = "listings"
                                /\ UNCHANGED <<ui, crashed>>
            \* st.warning("Please fill in Company, Role, and Skills.")
            ELSE pc' = "listings" /\ NoCall /\ UNCHANGED <<ui, posted, crashed>>
       ELSE pc' = "listings" /\ NoCall /\ UNCHANGED <<ui, posted, crashed>>
    /\ UNCHANGED <<model_defined, market_data, fetched, guided>>

\* lines 223-233: Current Active Listings
RecruiterListings ==
    /\ pc = "listings"
    /\ \E resp \in QueryResponses :
         LET r == fetch_jobs_from_notion(resp) IN
         /\ AfterFetch(r)
         /\ crashed' = r.raised
    /\ pc' = "done"
    /\ ui' = NoWidgets
    /\ UNCHANGED <<model_defined, market_data, posted, guided>>

\* lines 253-256
StudentFetch ==
    /\ pc = "student"
    /\ ui.analyze_btn /\ ui.s_skills # "" /\ ui.s_interests # ""
    /\ \E resp \in QueryResponses :
         LET r == fetch_jobs_from_notion(resp) IN
         /\ AfterFetch(r)
         /\ IF r.raised
            THEN crashed' = TRUE /\ pc' = "done" /\ ui' = ui
                 /\ market_data' = market_data
            ELSE crashed' = crashed /\ pc' = "guidance" /\ ui' = ui
                 /\ market_data' = r.ret
    /\ UNCHANGED <<model_defined, posted, guided>>

\* StudentGuidance handing the generator no market data
StudentGuidance_nodata ==
    /\ pc = "guidance"
    /\ \E out \in GenOutcomes :
         LET student_profile == Profile(ui.s_name, ui.s_skills, ui.s_interests)
             r == get_career_guidance(student_profile, <<>>,
                                      model_defined, out)
         IN /\ AfterGen(r)
            /\ crashed' = r.raised
    /\ pc' = "done"
    /\ ui' = NoWidgets
    /\ UNCHANGED <<model_defined, market_data, fetched, posted>>

\* lines 258-272
StudentGuidance ==
    /\ pc = "guidance"
    /\ \E out \in GenOutcomes :
         LET student_profile == Profile(ui.s_name, ui.s_skills, ui.s_interests)
             r == get_career_guidance(student_profile, market_data,
                                      model_defined, out)
         IN /\ AfterGen(r)
            /\ crashed' = r.raised
    /\ pc' = "done"
    /\ ui' = NoWidgets
    /\ UNCHANGED <<model_defined, market_data, fetched, posted>>

\* lines 273-274: st.warning("Please enter your skills and interests ...")
StudentWarning ==
    /\ pc = "student"
    /\ ~(ui.analyze_btn /\ ui.s_skills # "" /\ ui.s_interests # "")
    /\ ui.analyze_btn
    /\ pc' = "done"
    /\ ui' = NoWidgets
    /\ NoCall
    /\ UNCHANGED <<model_defined, market_data, fetched, posted, guided, crashed>>

\* lines 275-289: Recently Posted Jobs
StudentPlaceholder ==
    /\ pc = "student"
    /\ ~ui.analyze_btn
    /\ \E resp \in QueryResponses :
         LET r == fetch_jobs_from_notion(resp) IN
         /\ AfterFetch(r)
         /\ crashed' = r.raised
    /\ pc' = "done"
    /\ ui' = NoWidgets
    /\ UNCHANGED <<model_defined, market_data, posted, guided>>

\* The script run is over (its last line, or an uncaught exception): its
\* locals and what it displayed are gone when the next run starts.
EndRun ==
    /\ pc = "done"
    /\ pc' = "idle"
    /\ ui' = NoWidgets
    /\ market_data' = <<>>
    /\ fetched' = NoFetch
    /\ posted' = NoPost
    /\ guided' = NoGen
    /\ calls' = <<>>
    /\ crashed' = FALSE
    /\ UNCHANGED <<model_defined, store0, storeCount, readReqs, writeReqs,
                   createsTrue, fetchCalls, createCalls, ops>>

Next ==
    \/ UserEvent
    \/ PostJob
    \/ RecruiterListings
    \/ StudentFetch
    \/ StudentGuidance
    \/ StudentWarning
    \/ StudentPlaceholder
    \/ EndRun

Spec == Init /\ [][Next]_vars

\* ------------------------------------- the three functions called directly
Harness ==
    /\ pc = "idle"
    /\ calls = <<>>
    /\ ops < MaxOps
    /\ UNCHANGED <<pc, ui, model_defined, market_data, crashed>>

CallFetchAll ==
    /\ Harness
    /\ \E resp \in QueryResponses : AfterFetch(fetch_jobs_from_notion(resp))
    /\ UNCHANGED <<posted, guided>>

CallCreate ==
    /\ Harness
    /\ \E t, r, c, s, d, k \in Strs, resp \in PageResponses :
         AfterPost(post_job_to_notion(<<t, r, c, s, d, k>>, resp))
    /\ UNCHANGED <<fetched, guided>>

Listings == {<<>>, <<Job("Intern - Backend", "Unknown", "", "")>>}

CallGenerate ==
    /\ Harness
    /\ \E n, k, i \in Strs, ls \in Listings, out \in GenOutcomes :
         AfterGen(get_career_guidance(Profile(n, k, i), ls, model_defined, out))
    /\ UNCHANGED <<fetched, posted>>

\* the call has returned and its result is dropped
Return ==
    /\ pc = "idle"
    /\ calls # <<>>
    /\ calls' = <<>>
    /\ fetched' = NoFetch
    /\ posted' = NoPost
    /\ guided' = NoGen
    /\ UNCHANGED <<pc, ui, model_defined, market_data, crashed, store0,
                   storeCount, readReqs, writeReqs, createsTrue, fetchCalls,
                   createCalls, ops>>

NextRepo == CallFetchAll \/ CallCreate \/ CallGenerate \/ Return

SpecRepo == Init /\ [][NextRepo]_vars

\* ================================================================ claims

\* ---- what the documentation says a page yields
\* the first fragment's text of a property, or the default when there is none
FirstText(page, name, default) ==
    LET p == page[name] IN
    IF p.kind = "map" /\ p.key = TypeKey(name) /\ p.frags # <<>>
    THEN p.frags[1].plain_text
    ELSE default

\* the property is not a map, or the first fragment the code reads has no
\* plain_text key
Malformed(page, name) ==
    LET p == page[name] IN
    \/ p.kind = "notmap"
    \/ /\ p.kind = "map" /\ p.key = TypeKey(name) /\ p.frags # <<>>
       /\ ~p.frags[1].has_plain_text

WellFormed(page) == \A n \in PropNames : ~Malformed(page, n)

DefaultedText(page, name, default) ==
    IF Malformed(page, name) THEN default ELSE FirstText(page, name, default)

DocumentedListing(page) ==
    Job(DefaultedText(page, "Title", "Untitled") \o " - "
            \o DefaultedText(page, "Role", ""),
        DefaultedText(page, "Company", "Unknown"),
        DefaultedText(page, "Required Skills", ""),
        DefaultedText(page, "Description", ""))

\* the query answered with a list of pages that the code iterates
PagesRead ==
    /\ fetched.called
    /\ ~fetched.resp.exc
    /\ fetched.resp.status # 401
    /\ fetched.resp.body.kind = "results"

RequiredFilled(w) ==
    w.company_name # "" /\ w.role_title # "" /\ w.req_skills # ""

\* C1 (as claimed): pressing Post with the three required fields filled calls
\* create once, create returns a boolean, the listings are fetched afterwards,
\* create is not called when a required field is empty, and no exception
\* escapes the script run.
C1_PostCreatesOnceThenRedisplays ==
    /\ ~crashed
    /\ posted.called =>
          /\ ~posted.raised
          /\ posted.reqs = 1
          /\ calls[1] = "create"
    /\ (pc = "listings" /\ ui.post_btn) => (posted.called <=> RequiredFilled(ui))
    /\ (pc = "done" /\ posted.called) => calls = <<"create", "fetchAll">>

\* C2: create called with six strings returns True exactly when the one HTTP
\* call answers 200, False otherwise (also on a transport exception), never
\* raises, and sends each argument under its documented property and type
\* with the configured parent database id.
C2_CreateTrueIffStatus200 ==
    (posted.called /\ Len(posted.args) = 6) =>
        /\ ~posted.raised
        /\ posted.reqs = 1
        /\ posted.ret <=> (~posted.resp.exc /\ posted.resp.status = 200)
        /\ posted.req.parent = NOTION_DATABASE_ID
        /\ posted.req.properties["Title"] = Field("title", posted.args[1])
        /\ posted.req.properties["Role"] = Field("rich_text", posted.args[2])
        /\ posted.req.properties["Company"] = Field("rich_text", posted.args[3])
        /\ posted.req.properties["Required Skills"] = Field("rich_text", posted.args[4])
        /\ posted.req.properties["Description"] = Field("rich_text", posted.args[5])
        /\ posted.req.properties["Contact"] = Field("rich_text", posted.args[6])

C2_Witness ==
    /\ posted.called
    /\ posted.ret
    /\ posted.resp.status = 200
    /\ posted.args = <<"a", "", "a", "", "", "a">>

\* C3: fetchAll never raises, and returns the empty sequence when the
\* transport throws, when the body is not valid JSON and on HTTP 401.
C3_FetchNeverRaises ==
    fetched.called =>
        /\ ~fetched.raised
        /\ (\/ fetched.resp.exc
            \/ fetched.resp.body.kind = "notjson"
            \/ fetched.resp.status = 401) => fetched.ret = <<>>

C3_Witness ==
    /\ fetched.called
    /\ ~fetched.resp.exc
    /\ fetched.resp.status = 200
    /\ fetched.resp.body.kind = "notjson"
    /\ fetched.ret = <<>>
    /\ ~fetched.raised

\* C4: for a valid response with n pages fetchAll returns n listings in page
\* order; listing i holds "{title} - {role}" and company, skills, description
\* from the first fragment of page i's properties, a missing property or an
\* empty fragment list giving the default.
C4_OneListingPerPage ==
    (/\ PagesRead
     /\ fetched.resp.status = 200
     /\ \A i \in 1..Len(fetched.resp.body.results) :
            WellFormed(fetched.resp.body.results[i])) =>
        /\ ~fetched.raised
        /\ Len(fetched.ret) = Len(fetched.resp.body.results)
        /\ \A i \in 1..Len(fetched.ret) :
             LET page == fetched.resp.body.results[i] IN
             fetched.ret[i] =
                Job(FirstText(page, "Title", "Untitled") \o " - "
                        \o FirstText(page, "Role", ""),
                    FirstText(page, "Company", "Unknown"),
                    FirstText(page, "Required Skills", ""),
                    FirstText(page, "Description", ""))

C4_Witness ==
    /\ PagesRead
    /\ fetched.resp.status = 200
    /\ fetched.ret = <<Job("Intern - Backend", "Unknown", "", ""),
                       Job("Intern - Data", "Acme", "Python", "Build")>>

OtherFailure(resp) == resp.exc \/ resp.status \notin {200, 401}

\* C6 (as claimed): HTTP 401 on fetchAll and on create shows a message that
\* no other failure of the same operation shows, fetchAll returning empty and
\* create returning False.
C6_AuthSurfacedDistinctly ==
    /\ (fetched.called /\ ~fetched.resp.exc /\ fetched.resp.status = 401) =>
          /\ fetched.ret = <<>>
          /\ fetched.msgs # <<>>
          /\ \A r \in QueryResponses :
               OtherFailure(r) => fetch_jobs_from_notion(r).msgs # fetched.msgs
    /\ (posted.called /\ ~posted.raised /\ ~posted.resp.exc
          /\ posted.resp.status = 401) =>
          /\ ~posted.ret
          /\ posted.msgs # <<>>
          /\ \A r \in PageResponses :
               OtherFailure(r) =>
                  post_job_to_notion(posted.args, r).msgs # posted.msgs

\* C7 (as claimed): a network exception, a non-200 non-401 response and a JSON
\* decoding failure each give the degraded result together with an error
\* message; fetchAll is never silently empty on a non-200 non-401 response.
C7_FailuresShowMessage ==
    /\ (fetched.called /\ (OtherFailure(fetched.resp)
                            \/ (fetched.resp.status # 401
                                /\ fetched.resp.body.kind = "notjson"))) =>
          (fetched.ret = <<>> /\ fetched.msgs # <<>>)
    /\ (posted.called /\ ~posted.raised /\ OtherFailure(posted.resp)) =>
          (~posted.ret /\ posted.msgs # <<>>)

\* C8: generate calls the generation service at most once (once when the
\* client exists), never raises, returns the fixed fallback string when the
\* call throws or the client was never initialised, and otherwise returns
\* the generated text unmodified.
C8_GenerateFallsBack ==
    guided.called =>
        /\ ~guided.raised
        /\ guided.reqs <= 1
        /\ model_defined => guided.reqs = 1
        /\ (~model_defined \/ guided.out.throws) =>
              guided.ret = "Sorry, I couldn't generate an analysis at this moment."
        /\ (model_defined /\ ~guided.out.throws) => guided.ret = guided.out.text

C8_Witness ==
    /\ guided.called
    /\ model_defined
    /\ guided.out.throws
    /\ guided.listings # <<>>
    /\ guided.profile.skills # ""
    /\ guided.ret = FallbackReport

AnalyzeRequested(w) == w.analyze_btn /\ w.s_skills # "" /\ w.s_interests # ""

\* C9: in the student view, Analyze with skills and interests filled makes
\* one fetchAll complete and then one generate run with exactly the listings
\* that fetch returned (also the empty ones); generate is invoked in no other
\* case.
C9_AnalyzeFetchesThenGenerates ==
    [][/\ (pc = "student" /\ AnalyzeRequested(ui)) =>
              /\ pc' = "guidance"
              /\ calls' = <<"fetchAll">>
              /\ fetched'.called /\ fetched'.reqs = 1
              /\ ~guided'.called
       /\ pc = "guidance" =>
              /\ guided'.called
              /\ guided'.listings = fetched.ret
              /\ guided'.profile = Profile(ui.s_name, ui.s_skills, ui.s_interests)
              /\ calls' = <<"fetchAll", "generate">>
              /\ fetched' = fetched
       /\ (pc = "student" /\ ~AnalyzeRequested(ui)) =>
              (pc' = "done" /\ ~guided'.called)
       /\ (guided'.called /\ ~guided.called) => pc = "guidance"
      ]_vars

C9_Witness ==
    /\ pc = "done"
    /\ calls = <<"fetchAll", "generate">>
    /\ fetched.resp.exc
    /\ fetched.ret = <<>>
    /\ guided.called
    /\ guided.listings = <<>>
    /\ guided.reqs = 1

\* C10: the remote store holds its initial records plus one per create that
\* returned True; every create sends one write request, every fetchAll one
\* read request, and fetchAll leaves the store as it is.
C10_StoreCountsCreates ==
    /\ storeCount = store0 + createsTrue
    /\ writeReqs = createCalls
    /\ readReqs = fetchCalls
    /\ posted.called => posted.reqs = 1
    /\ fetched.called => fetched.reqs = 1

C10_Witness ==
    /\ store0 = 1
    /\ createCalls = 2
    /\ createsTrue = 1
    /\ fetchCalls = 1
    /\ storeCount = 2

====
